---- MODULE Spec2Model ----
(***************************************************************************)
(* Model of ncurses_multi_ping.py: one asyncio worker task per host that   *)
(* pings on a cadence, and the refresher task that renders, reads keys,    *)
(* mutates the shared pause flag / interval / wake event and finally       *)
(* cancels and gathers the workers.                                        *)
(*                                                                         *)
(* asyncio is cooperative: a task runs without interruption from one       *)
(* await to the next.  Every action below is one such task step.           *)
(* Intervals are counted in units of 0.2 s (2.0 s = 10 units).             *)
(***************************************************************************)
EXTENDS Integers, FiniteSets, Sequences, TLC

\* ---------------------------------------------------------------- bounds
MaxInterval == 11  \* cap on the '-' key (the code has no ceiling)
MaxTime == 1       \* the clock stops advancing here
ScenarioHorizon == 16  \* where the clock stops in the timed end-to-end scenario

\* ------------------------------------------------------- program constants
DEFAULT_INTERVAL == 10  \* 2.0 s
IntervalStep == 1       \* 0.2 s
IntervalFloor == 1      \* 0.2 s
None == -1              \* Python None in a numeric field
PING_TIMEOUT == 5       \* 1 s, the value given to ping -W
HardBound == 15         \* PING_TIMEOUT + 2 = 3 s, the timeout of line 53

\* sys.argv[1:], the host list of the end-to-end scenario
Hosts == {"10.0.0.1", "10.0.0.2"}

\* What the terminal delivers to one getch() call, or a failure of the
\* drawing calls that precede it.
KeyChars == {"q", "Q", "p", "P", "u", "U", "+", "-", "x"}
TermEvents == KeyChars \cup {"timeout", "readError", "KeyboardInterrupt", "renderError"}

\* One completed ping process: whether its standard output contains the
\* substring "time=", the whitespace-delimited token that follows it within
\* the 20 characters looked at by line 62, and the exit status of the process.
Tokens == {"5.0", "abc", ""}
ExitCodes == {0, 1}
Outputs == [marker : BOOLEAN, token : Tokens, code : ExitCodes]

VARIABLES
    mainpc,        \* refresher: "start", "running", "gathering", "returned", "raised"
    exc,           \* refresher: an exception is propagating through finally
    pc,            \* worker task per host
    notified,      \* worker's Event.wait() future has a result
    proc,          \* ping subprocess per host: "none" or "running"
    hostState,     \* HostStatus per host
    paused,        \* pause_flag['paused']
    interval,      \* interval_ref['val'] in units of 0.2 s
    event,         \* interval_event._value
    pingAvailable, \* shutil.which("ping") finds an executable
    now,           \* datetime.now(), coarse
    readFailed,    \* the latest getch() call ended in a terminal error
    owed,          \* history: an update request was made and the host has not probed since
    served,        \* history: the worker returned early from a wait since the last set()
    reqPaused,     \* history: a set() made while paused is still pending
    timed,         \* timeouts are counted (TRUE) or may fire at any moment (FALSE)
    timer          \* per host: units left of the running wait_for, or None

vars == <<mainpc, exc, pc, notified, proc, hostState, paused, interval, event,
          pingAvailable, now, readFailed, owed, served, reqPaused, timed, timer>>

\* ------------------------------------------------------------- HostStatus
HostStatus == [last_result |-> "Unknown", last_rtt |-> None, last_time |-> None]

\* variant: int(rtt_str), which raises ValueError on a decimal point
ToFloat_IntOnly(tok) == None

\* float(rtt_str): the value in tenths of a millisecond, or None for ValueError
ToFloat(tok) ==
    CASE tok = "5.0" -> 50
      [] OTHER -> None

\* variant: the token is parsed without looking for the marker first
ParseOutput_NoMarkerCheck(out) ==
    [up |-> out.marker, rtt |-> ToFloat(out.token)]

\* variant: a token that does not parse makes the probe a failure
ParseOutput_FailureIsDown(out) ==
    IF out.marker /\ ToFloat(out.token) # None
    THEN [up |-> TRUE, rtt |-> ToFloat(out.token)]
    ELSE [up |-> FALSE, rtt |-> None]

\* ping_host, lines 58-69: classification of a completed invocation
ParseOutput(out) ==
    IF out.marker
    THEN [up |-> TRUE, rtt |-> ToFloat(out.token)]
    ELSE [up |-> FALSE, rtt |-> None]

\* ping_host, lines 54-56, and worker, lines 78-79
DownResult == [up |-> FALSE, rtt |-> None]

\* worker, lines 80-82
WriteStatus(res) ==
    [last_result |-> IF res.up THEN "Up" ELSE "Down",
     last_rtt |-> res.rtt,
     last_time |-> now]


\* ---------------------------------------------------------------- workers
\* the timeout handed to a wait_for that starts now
Armed(units) == IF timed THEN units ELSE None

\* a wait_for whose timeout may fire
Expired(h) == timed => timer[h] = 0

\* history: the request made while paused stays pending as long as the event
\* is set or a released waiter has not run
StillPending(rp, ev, nt) == rp /\ (ev \/ \E g \in Hosts : nt[g])

\* variant: the timeout is the interval the program started with
EnterWait_Cached(h, ev) ==
    /\ pc' = [pc EXCEPT ![h] = "waiting"]
    /\ notified' = [notified EXCEPT ![h] = ev]
    /\ timer' = [timer EXCEPT ![h] = Armed(DEFAULT_INTERVAL)]

\* worker, line 84: asyncio.wait_for(interval_event.wait(), timeout=...).
\* Event.wait() has its result at once when the event is set (ev); the
\* timeout is the interval read at this moment.
EnterWait(h, ev) ==
    /\ pc' = [pc EXCEPT ![h] = "waiting"]
    /\ notified' = [notified EXCEPT ![h] = ev]
    /\ timer' = [timer EXCEPT ![h] = Armed(interval)]

\* line 47 is reached: the task awaits create_subprocess_exec
StartProbe(h) ==
    /\ pc' = [pc EXCEPT ![h] = "spawning"]
    /\ notified' = [notified EXCEPT ![h] = FALSE]
    /\ timer' = [timer EXCEPT ![h] = None]
    /\ UNCHANGED hostState

\* variant: the pause flag is not consulted
LoopTop_NoPauseCheck(h, ev) ==
    /\ owed' = [owed EXCEPT ![h] = FALSE]
    /\ IF pingAvailable
       THEN StartProbe(h)
       ELSE /\ hostState' = [hostState EXCEPT ![h] = WriteStatus(DownResult)]
            /\ EnterWait(h, ev)

\* variant: lines 80-82 run on every cycle, also on a paused one
LoopTop_PausedWrites(h, ev) ==
    IF paused
    THEN /\ hostState' = [hostState EXCEPT ![h].last_time = now]
         /\ EnterWait(h, ev)
         /\ UNCHANGED owed
    ELSE /\ owed' = [owed EXCEPT ![h] = FALSE]
         /\ IF pingAvailable
            THEN StartProbe(h)
            ELSE /\ hostState' = [hostState EXCEPT ![h] = WriteStatus(DownResult)]
                 /\ EnterWait(h, ev)

\* variant: the test of line 75 is inverted
LoopTop_Inverted(h, ev) ==
    IF ~paused
    THEN /\ EnterWait(h, ev)
         /\ UNCHANGED <<hostState, owed>>
    ELSE /\ owed' = [owed EXCEPT ![h] = FALSE]
         /\ IF pingAvailable
            THEN StartProbe(h)
            ELSE /\ hostState' = [hostState EXCEPT ![h] = WriteStatus(DownResult)]
                 /\ EnterWait(h, ev)

\* worker, lines 74-84, from the top of the loop to the next await; ev is the
\* value of the event at this point of the step.
LoopTop(h, ev) ==
    IF paused
    THEN /\ EnterWait(h, ev)
         /\ UNCHANGED <<hostState, owed>>
    ELSE /\ owed' = [owed EXCEPT ![h] = FALSE]
         /\ IF pingAvailable
            THEN StartProbe(h)
            ELSE \* line 45 raises RuntimeError, line 78 catches it
                 /\ hostState' = [hostState EXCEPT ![h] = WriteStatus(DownResult)]
                 /\ EnterWait(h, ev)

\* first step of a created task
WorkerStart(h) ==
    /\ mainpc = "running"
    /\ pc[h] = "created"
    /\ LoopTop(h, event)
    /\ UNCHANGED <<mainpc, exc, proc, paused, interval, event, pingAvailable,
                   now, readFailed, served, timed>>
    /\ reqPaused' = StillPending(reqPaused, event', notified')

\* variant: the exception of line 47 is not caught and ends the task
SpawnDone_Uncaught(h, ok) ==
    /\ mainpc = "running"
    /\ pc[h] = "spawning"
    /\ IF ok
       THEN /\ pc' = [pc EXCEPT ![h] = "communicating"]
            /\ proc' = [proc EXCEPT ![h] = "running"]
            /\ timer' = [timer EXCEPT ![h] = Armed(HardBound)]
            /\ UNCHANGED <<hostState, notified>>
       ELSE /\ pc' = [pc EXCEPT ![h] = "failed"]
            /\ UNCHANGED <<hostState, notified, proc, timer>>
    /\ UNCHANGED <<mainpc, exc, paused, interval, event, pingAvailable, now,
                   readFailed, owed, served, timed>>
    /\ reqPaused' = StillPending(reqPaused, event', notified')

\* line 47: create_subprocess_exec returns a process, or raises (OSError)
SpawnDone(h, ok) ==
    /\ mainpc = "running"
    /\ pc[h] = "spawning"
    /\ IF ok
       THEN /\ pc' = [pc EXCEPT ![h] = "communicating"]
            /\ proc' = [proc EXCEPT ![h] = "running"]
            /\ timer' = [timer EXCEPT ![h] = Armed(HardBound)]
            /\ UNCHANGED <<hostState, notified>>
       ELSE /\ hostState' = [hostState EXCEPT ![h] = WriteStatus(DownResult)]
            /\ EnterWait(h, event)
            /\ UNCHANGED proc
    /\ UNCHANGED <<mainpc, exc, paused, interval, event, pingAvailable, now,
                   readFailed, owed, served, timed>>
    /\ reqPaused' = StillPending(reqPaused, event', notified')

\* line 53 returns: the process has exited and its output is classified,
\* lines 58-69; then lines 80-84
CommunicateDone(h, out) ==
    /\ mainpc = "running"
    /\ pc[h] = "communicating"
    /\ proc' = [proc EXCEPT ![h] = "none"]
    /\ hostState' = [hostState EXCEPT ![h] = WriteStatus(ParseOutput(out))]
    /\ EnterWait(h, event)
    /\ UNCHANGED <<mainpc, exc, paused, interval, event, pingAvailable, now,
                   readFailed, owed, served, timed>>
    /\ reqPaused' = StillPending(reqPaused, event', notified')

\* variant: the timed-out process is not killed
CommunicateTimeout_NoKill(h) ==
    /\ mainpc = "running"
    /\ pc[h] = "communicating"
    /\ Expired(h)
    /\ hostState' = [hostState EXCEPT ![h] = WriteStatus(DownResult)]
    /\ EnterWait(h, event)
    /\ UNCHANGED <<mainpc, exc, proc, paused, interval, event, pingAvailable,
                   now, readFailed, owed, served, timed>>
    /\ reqPaused' = StillPending(reqPaused, event', notified')

\* lines 54-56: wait_for timed out, the process is killed; then lines 80-84
CommunicateTimeout(h) ==
    /\ mainpc = "running"
    /\ pc[h] = "communicating"
    /\ Expired(h)
    /\ proc' = [proc EXCEPT ![h] = "none"]
    /\ hostState' = [hostState EXCEPT ![h] = WriteStatus(DownResult)]
    /\ EnterWait(h, event)
    /\ UNCHANGED <<mainpc, exc, paused, interval, event, pingAvailable, now,
                   readFailed, owed, served, timed>>
    /\ reqPaused' = StillPending(reqPaused, event', notified')

\* variant: the event is left set
Clear_NoReset(ev) == ev

\* line 85: interval_event.clear()
Clear(ev) == FALSE

\* lines 84-85 then the next cycle: the wait returned because the event fired
WakeByEvent(h) ==
    /\ mainpc = "running"
    /\ pc[h] = "waiting"
    /\ notified[h]
    /\ event' = Clear(event)
    /\ served' = [served EXCEPT ![h] = TRUE]
    /\ LoopTop(h, Clear(event))
    /\ UNCHANGED <<mainpc, exc, proc, paused, interval, pingAvailable, now,
                   readFailed, timed>>
    /\ reqPaused' = StillPending(reqPaused, event', notified')

\* variant: the wait has no timeout (timeout=None)
WakeByTimeout_NoTimeout(h) ==
    /\ FALSE
    /\ UNCHANGED vars

\* variant: clear() is called after the try block, on both ways out
WakeByTimeout_Clears(h) ==
    /\ mainpc = "running"
    /\ pc[h] = "waiting"
    /\ Expired(h)
    /\ event' = FALSE
    /\ LoopTop(h, FALSE)
    /\ UNCHANGED <<mainpc, exc, proc, paused, interval, pingAvailable,
                   now, readFailed, served, timed>>
    /\ reqPaused' = StillPending(reqPaused, event', notified')

\* lines 86-87 then the next cycle: the wait timed out, the event is untouched
WakeByTimeout(h) ==
    /\ mainpc = "running"
    /\ pc[h] = "waiting"
    /\ Expired(h)
    /\ LoopTop(h, event)
    /\ UNCHANGED <<mainpc, exc, proc, paused, interval, event, pingAvailable,
                   now, readFailed, served, timed>>
    /\ reqPaused' = StillPending(reqPaused, event', notified')

\* variant: the cancellation is caught like a failed probe (except BaseException)
WorkerCancelled_Swallowed(h) ==
    /\ mainpc = "gathering"
    /\ pc[h] \in {"created", "spawning", "communicating", "waiting"}
    /\ IF pc[h] \in {"spawning", "communicating"}
       THEN hostState' = [hostState EXCEPT ![h] = WriteStatus(DownResult)]
       ELSE UNCHANGED hostState
    /\ pc' = [pc EXCEPT ![h] = "cancelled"]
    /\ notified' = [notified EXCEPT ![h] = FALSE]
    /\ timer' = [timer EXCEPT ![h] = None]
    /\ UNCHANGED <<mainpc, exc, proc, paused, interval, event,
                   pingAvailable, now, readFailed, owed, served, timed>>
    /\ reqPaused' = StillPending(reqPaused, event', notified')

\* line 165 delivered: CancelledError is raised at the task's await.  It is
\* not an Exception, so neither line 54 nor line 78 nor line 86 catches it;
\* in particular line 55 (proc.kill) does not run.
WorkerCancelled(h) ==
    /\ mainpc = "gathering"
    /\ pc[h] \in {"created", "spawning", "communicating", "waiting"}
    /\ pc' = [pc EXCEPT ![h] = "cancelled"]
    /\ notified' = [notified EXCEPT ![h] = FALSE]
    /\ timer' = [timer EXCEPT ![h] = None]
    /\ UNCHANGED <<mainpc, exc, proc, hostState, paused, interval, event,
                   pingAvailable, now, readFailed, owed, served, timed>>
    /\ reqPaused' = StillPending(reqPaused, event', notified')

\* environment: a ping process nobody waits for any more exits by itself
ProcExit(h) ==
    /\ pc[h] = "cancelled"
    /\ proc[h] = "running"
    /\ proc' = [proc EXCEPT ![h] = "none"]
    /\ UNCHANGED <<mainpc, exc, pc, notified, hostState, paused, interval,
                   event, pingAvailable, now, readFailed, owed, served,
                   reqPaused, timed, timer>>

\* -------------------------------------------------------------- refresher
\* lines 143-146: getch() yields -1 both when the 200 ms poll times out and
\* when the read fails; KeyboardInterrupt is mapped to 'q'
Getch(ev) ==
    CASE ev \in {"timeout", "readError"} -> "-1"
      [] ev = "KeyboardInterrupt" -> "q"
      [] OTHER -> ev

\* variant: no floor
IncreaseRate_NoFloor(val) == val - IntervalStep

\* line 158
IncreaseRate(val) == IF val - IntervalStep > IntervalFloor THEN val - IntervalStep ELSE IntervalFloor

\* variant: the interval is capped at the default
DecreaseRate_Ceiling(val) ==
    IF val + IntervalStep > DEFAULT_INTERVAL THEN DEFAULT_INTERVAL ELSE val + IntervalStep

\* line 160
DecreaseRate(val) == val + IntervalStep

\* variant: a single-permit signal that releases one waiter only
EventSet_One ==
    LET waiting == {h \in Hosts : pc[h] = "waiting" /\ ~notified[h]} IN
    [h \in Hosts |->
        notified[h] \/ (waiting # {} /\ h = CHOOSE w \in waiting : TRUE)]

\* line 156: Event.set() gives a result to the future of every waiter
EventSet == [h \in Hosts |-> notified[h] \/ pc[h] = "waiting"]

\* line 101: one task per host, created on entry; afterwards the tasks exist
Tasks == IF mainpc = "start" THEN [h \in Hosts |-> "created"] ELSE pc

\* lines 91-97 raise curses.error: no task exists yet
SetupFails ==
    /\ mainpc = "start"
    /\ mainpc' = "raised"
    /\ exc' = TRUE
    /\ UNCHANGED <<pc, notified, proc, hostState, paused, interval, event,
                   pingAvailable, now, readFailed, owed, served, reqPaused,
                   timed, timer>>

\* lines 163-166 up to the await: every task is sent a cancellation
ExitLoop(raised) ==
    /\ mainpc' = "gathering"
    /\ exc' = raised
    /\ UNCHANGED <<notified, paused, interval, event, owed, served, reqPaused>>

\* lines 104-162: one iteration of the loop, from drawing the frame to the
\* await at line 149 / 162, or to the await at line 166 when the loop ends.
\* The first iteration runs in the same task step as lines 91-101.  The
\* tasks created there are queued ahead of the refresher's resumption, so
\* each has taken its first step before the second iteration begins.
DashboardStep(ev) ==
    /\ \/ mainpc = "start"
       \/ mainpc = "running" /\ \A h \in Hosts : pc[h] # "created"
    /\ ev = "-" => interval < MaxInterval
    /\ pc' = Tasks
    /\ IF ev = "renderError"
       THEN ExitLoop(TRUE) /\ UNCHANGED readFailed
       ELSE /\ readFailed' = (ev = "readError")
            /\ LET key == Getch(ev) IN
               CASE key = "-1" ->
                      /\ mainpc' = "running"
                      /\ UNCHANGED <<exc, notified, paused, interval, event,
                                     owed, served, reqPaused>>
                 [] key \in {"q", "Q"} -> ExitLoop(FALSE)
                 [] key \in {"p", "P"} ->
                      /\ mainpc' = "running"
                      /\ paused' = ~paused
                      /\ owed' = [h \in Hosts |-> FALSE]
                      /\ UNCHANGED <<exc, notified, interval, event, served,
                                     reqPaused>>
                 [] key \in {"u", "U"} ->
                      /\ mainpc' = "running"
                      /\ event' = TRUE
                      /\ notified' = EventSet
                      /\ owed' = [h \in Hosts |-> owed[h] \/ ~paused]
                      /\ served' = [h \in Hosts |-> FALSE]
                      /\ reqPaused' = paused
                      /\ UNCHANGED <<exc, paused, interval>>
                 [] key = "+" ->
                      /\ mainpc' = "running"
                      /\ interval' = IncreaseRate(interval)
                      /\ UNCHANGED <<exc, notified, paused, event, owed, served,
                                     reqPaused>>
                 [] key = "-" ->
                      /\ mainpc' = "running"
                      /\ interval' = DecreaseRate(interval)
                      /\ UNCHANGED <<exc, notified, paused, event, owed, served,
                                     reqPaused>>
                 [] OTHER ->
                      /\ mainpc' = "running"
                      /\ UNCHANGED <<exc, notified, paused, interval, event,
                                     owed, served, reqPaused>>
    /\ UNCHANGED <<proc, hostState, pingAvailable, now, timed, timer>>

\* variant: the tasks are cancelled but not awaited
GatherDone_NoWait ==
    /\ mainpc = "gathering"
    /\ mainpc' = IF exc THEN "raised" ELSE "returned"
    /\ UNCHANGED <<exc, pc, notified, proc, hostState, paused, interval,
                   event, pingAvailable, now, readFailed, owed, served,
                   reqPaused, timed, timer>>

\* line 166 returns once every task is done; the pending exception, if any,
\* then leaves refresher
GatherDone ==
    /\ mainpc = "gathering"
    /\ \A h \in Hosts : pc[h] = "cancelled"
    /\ mainpc' = IF exc THEN "raised" ELSE "returned"
    /\ UNCHANGED <<exc, pc, notified, proc, hostState, paused, interval,
                   event, pingAvailable, now, readFailed, owed, served,
                   reqPaused, timed, timer>>

\* the wall clock advances
Tick ==
    /\ ~timed
    /\ now < MaxTime
    /\ now' = now + 1
    /\ UNCHANGED <<mainpc, exc, pc, notified, proc, hostState, paused,
                   interval, event, pingAvailable, readFailed, owed, served,
                   reqPaused, timed, timer>>

\* ------------------------------------------------------------ specification
\* main, lines 169-174, and the entry of refresher
Init ==
    /\ mainpc = "start"
    /\ exc = FALSE
    /\ pc = [h \in Hosts |-> "none"]
    /\ notified = [h \in Hosts |-> FALSE]
    /\ proc = [h \in Hosts |-> "none"]
    /\ hostState = [h \in Hosts |-> HostStatus]
    /\ paused = FALSE
    /\ interval = DEFAULT_INTERVAL
    /\ event = FALSE
    /\ pingAvailable \in BOOLEAN
    /\ now = 0
    /\ readFailed = FALSE
    /\ owed = [h \in Hosts |-> FALSE]
    /\ served = [h \in Hosts |-> FALSE]
    /\ reqPaused = FALSE
    /\ timed = FALSE
    /\ timer = [h \in Hosts |-> None]

Next ==
    \/ SetupFails
    \/ \E ev \in TermEvents : DashboardStep(ev)
    \/ GatherDone
    \/ Tick
    \/ \E h \in Hosts : WorkerStart(h)
    \/ \E h \in Hosts : \E ok \in BOOLEAN : SpawnDone(h, ok)
    \/ \E h \in Hosts : \E out \in Outputs : CommunicateDone(h, out)
    \/ \E h \in Hosts : CommunicateTimeout(h)
    \/ \E h \in Hosts : WakeByEvent(h)
    \/ \E h \in Hosts : WakeByTimeout(h)
    \/ \E h \in Hosts : WorkerCancelled(h)
    \/ \E h \in Hosts : ProcExit(h)

Spec == Init /\ [][Next]_vars

\* ---------------------------------------------------------- fair scheduling
\* one step of the worker task of h, whichever await it is suspended in
WorkerStep(h) ==
    \/ WorkerStart(h)
    \/ \E ok \in BOOLEAN : SpawnDone(h, ok)
    \/ \E out \in Outputs : CommunicateDone(h, out)
    \/ CommunicateTimeout(h)
    \/ WakeByEvent(h)
    \/ WakeByTimeout(h)

\* a step in which lines 80-82 run for h
Wrote(h) ==
    \/ SpawnDone(h, FALSE)
    \/ \E out \in Outputs : CommunicateDone(h, out)
    \/ CommunicateTimeout(h)

\* main with ping installed, timeouts free to fire at any moment
InitLive ==
    /\ mainpc = "start"
    /\ exc = FALSE
    /\ pc = [h \in Hosts |-> "none"]
    /\ notified = [h \in Hosts |-> FALSE]
    /\ proc = [h \in Hosts |-> "none"]
    /\ hostState = [h \in Hosts |-> HostStatus]
    /\ paused = FALSE
    /\ interval = DEFAULT_INTERVAL
    /\ event = FALSE
    /\ pingAvailable = TRUE
    /\ now = 0
    /\ readFailed = FALSE
    /\ owed = [h \in Hosts |-> FALSE]
    /\ served = [h \in Hosts |-> FALSE]
    /\ reqPaused = FALSE
    /\ timed = FALSE
    /\ timer = [h \in Hosts |-> None]

\* the keys that pause, request an update and quit
LiveKeys == {"timeout", "p", "u", "q"}

NextLive ==
    \/ \E ev \in LiveKeys : DashboardStep(ev)
    \/ GatherDone
    \/ \E h \in Hosts : WorkerStep(h)
    \/ \E h \in Hosts : WorkerCancelled(h)
    \/ \E h \in Hosts : ProcExit(h)

\* The event loop runs every task that is ready, every wait_for has a finite
\* timeout, and a spawn or a ping ends: a worker that can take a step
\* eventually takes one.  Nothing is assumed of the keyboard.
SpecLive ==
    /\ InitLive
    /\ [][NextLive]_vars
    /\ \A h \in Hosts : WF_vars(WorkerStep(h))

\* ------------------------------------------------------------ counted time
\* The clock moves by one unit of 0.2 s, the granularity of the loop (line
\* 93: getch blocks the event loop for up to 200 ms), and every running
\* wait_for loses one unit.  It moves only when no task has a step to take:
\* a task that was just created or released, a spawn in progress and an
\* expired timeout are served first.  The displayed clock stops at cap.
TimedTick(cap) ==
    /\ timed
    /\ mainpc = "running"
    /\ \A h \in Hosts :
         /\ pc[h] \in {"communicating", "waiting"}
         /\ ~notified[h]
         /\ timer[h] > 0
    /\ timer' = [h \in Hosts |-> timer[h] - 1]
    /\ now' = IF now < cap THEN now + 1 ELSE now
    /\ UNCHANGED <<mainpc, exc, pc, notified, proc, hostState, paused,
                   interval, event, pingAvailable, readFailed, owed, served,
                   reqPaused, timed>>

\* main with ping installed, time counted
InitTimed ==
    /\ mainpc = "start"
    /\ exc = FALSE
    /\ pc = [h \in Hosts |-> "none"]
    /\ notified = [h \in Hosts |-> FALSE]
    /\ proc = [h \in Hosts |-> "none"]
    /\ hostState = [h \in Hosts |-> HostStatus]
    /\ paused = FALSE
    /\ interval = DEFAULT_INTERVAL
    /\ event = FALSE
    /\ pingAvailable = TRUE
    /\ now = 0
    /\ readFailed = FALSE
    /\ owed = [h \in Hosts |-> FALSE]
    /\ served = [h \in Hosts |-> FALSE]
    /\ reqPaused = FALSE
    /\ timed = TRUE
    /\ timer = [h \in Hosts |-> None]

\* The program with ping installed and time counted, up to the quit: the
\* keys that change the interval and pause, and pings that answer, fail to
\* start or hang.
TimedKeys == {"timeout", "+", "-", "p"}

NextTimed ==
    \/ \E ev \in TimedKeys : DashboardStep(ev)
    \/ \E h \in Hosts : WorkerStart(h)
    \/ \E h \in Hosts : \E ok \in BOOLEAN : SpawnDone(h, ok)
    \/ \E h \in Hosts : CommunicateDone(h, [marker |-> TRUE, token |-> "5.0", code |-> 0])
    \/ \E h \in Hosts : CommunicateTimeout(h)
    \/ \E h \in Hosts : WakeByTimeout(h)
    \/ TimedTick(MaxTime)

SpecTimed == InitTimed /\ [][NextTimed]_vars

\* --------------------------------------------------- end-to-end scenario
Host1 == "10.0.0.1"
Host2 == "10.0.0.2"

\* what ping prints for a reply after 5.0 ms, and for no reply
Reply == [marker |-> TRUE, token |-> "5.0", code |-> 0]
NoReply == [marker |-> FALSE, token |-> "", code |-> 1]

\* Host 1 always replies, and at once on the scale of the clock.  Host 2
\* never replies: its ping either gives up by itself once its reply wait
\* (-W PING_TIMEOUT) is over and exits without a marker, or hangs until the
\* hard timeout of line 53.  No key is pressed.
NextScenario ==
    \/ DashboardStep("timeout")
    \/ \E h \in Hosts : WorkerStart(h)
    \/ \E h \in Hosts : SpawnDone(h, TRUE)
    \/ CommunicateDone(Host1, Reply)
    \/ timer[Host2] <= HardBound - PING_TIMEOUT /\ CommunicateDone(Host2, NoReply)
    \/ CommunicateTimeout(Host2)
    \/ \E h \in Hosts : WakeByTimeout(h)
    \/ pc[Host1] # "communicating" /\ TimedTick(ScenarioHorizon)

SpecScenario == InitTimed /\ [][NextScenario]_vars

TypeOK ==
    /\ mainpc \in {"start", "running", "gathering", "returned", "raised"}
    /\ interval \in IntervalFloor..MaxInterval

Max(a, b) == IF a >= b THEN a ELSE b

Returned == mainpc \in {"returned", "raised"}

\* ================================================================== claims

\* C1 (as stated): no step taken while paused is true changes any host's
\* last_result / last_rtt / last_time, even when pause is pressed while that
\* host's probe is in flight.
C1_NoWriteWhilePaused ==
    [][paused => hostState' = hostState]_vars

\* C1 (amended): in a step taken while paused is true no probe is started,
\* and a host's record changes only if that host's probe was already in
\* flight (being spawned or awaited) when the step began.
C1_PausedWritesOnlyInFlight ==
    [][paused =>
         \A h \in Hosts :
            /\ hostState'[h] # hostState[h] => pc[h] \in {"spawning", "communicating"}
            /\ pc'[h] = "spawning" => pc[h] = "spawning"]_vars

\* paused, one loop waits without ever having probed while another host's
\* probe is in flight
C1_Witness ==
    /\ paused
    /\ pingAvailable
    /\ \E h, g \in Hosts :
          /\ pc[h] = "waiting"
          /\ hostState[h].last_result = "Unknown"
          /\ pc[g] = "communicating"

\* C2 (as stated): after an update request made while not paused, no loop
\* that has not yet started a new probe sits blocked in an interval wait that
\* the request does not cut short, whether it was waiting or mid-probe when
\* the request was made.
C2_EveryLoopProbesAtOnce ==
    \A h \in Hosts : owed[h] => ~(pc[h] = "waiting" /\ ~notified[h])

\* C2 (amended): setting the unset wake signal releases every loop that is
\* waiting at that moment, and a released loop stays released until its own
\* next step, which (paused still false) invokes ping_host at once.
C2_WaitersReleased ==
    [][\A h \in Hosts :
          /\ (~event /\ event') => (pc[h] = "waiting" => notified'[h])
          /\ (notified[h] /\ ~paused) =>
                \/ notified'[h]
                \/ pc'[h] = "cancelled"
                \/ IF pingAvailable
                   THEN pc'[h] = "spawning"
                   ELSE /\ pc'[h] = "waiting"
                        /\ hostState'[h] = WriteStatus(DownResult)]_vars

\* an update request made while not paused has released both waiting loops
C2_Witness ==
    /\ ~paused
    /\ \A h \in Hosts : pc[h] = "waiting" /\ notified[h] /\ owed[h]

\* C3: after one set() of the wake signal and no further set(), a worker
\* that has returned early from its wait is never released a second time.
C3_AtMostOneEarlyReturn ==
    \A h \in Hosts : served[h] => ~(pc[h] = "waiting" /\ notified[h])

\* one worker has consumed the signal and waits again while another worker's
\* wake-up for the same set() is still pending
C3_Witness ==
    \E h, g \in Hosts :
       /\ served[h] /\ pc[h] = "waiting"
       /\ ~served[g] /\ pc[g] = "waiting" /\ notified[g]

\* C4: when refresher has returned or raised, every PollLoop task that was
\* created is in its terminal cancelled state; and the loop is only ever left
\* towards the cancel-and-gather of the finally block.
C4_AllCancelledOnReturn ==
    /\ Returned =>
          \/ \A h \in Hosts : pc[h] = "cancelled"
          \/ \A h \in Hosts : pc[h] = "none"
    /\ mainpc = "gathering" => \A h \in Hosts : pc[h] # "none"

\* refresher left through an exception raised while rendering, after the
\* workers had run, and all of them are cancelled
C4_Witness ==
    /\ mainpc = "raised"
    /\ \A h \in Hosts : pc[h] = "cancelled"
    /\ \E h \in Hosts : hostState[h].last_result = "Up"

\* C5 (as stated): once refresher has returned, no spawned ping process is
\* still running.
C5_NoProcessSurvives ==
    Returned => \A h \in Hosts : proc[h] = "none"

\* C6: last_rtt is set only when last_result is Up.
C6_RttOnlyWhenUp ==
    \A h \in Hosts :
       hostState[h].last_rtt # None => hostState[h].last_result = "Up"

\* one host is Up with a latency, the other has been written as Down
C6_Witness ==
    \E h, g \in Hosts :
       /\ hostState[h].last_result = "Up" /\ hostState[h].last_rtt = 50
       /\ hostState[g].last_result = "Down" /\ hostState[g].last_time # None

\* C7 (as stated): a missing ping executable is never recorded as Down on a
\* host's state.
C7_MissingPingNeverDown ==
    ~pingAvailable => \A h \in Hosts : hostState[h].last_result # "Down"

\* C8 (as stated): after a key read that failed, the Dashboard loop is no
\* longer running.
C8_ReadErrorQuits ==
    readFailed => mainpc # "running"

\* C9: the interval never drops below the floor of 0.2 s.
C9_IntervalFloor ==
    interval >= IntervalFloor

\* the interval sits at the floor
C9_Witness ==
    interval = IntervalFloor /\ mainpc = "running"

C11_ExitStatusDecides ==
    [][\A h \in Hosts :
         /\ CommunicateTimeout(h) => hostState'[h].last_result = "Down"
         /\ \A out \in Outputs :
              (out.code # 0 /\ CommunicateDone(h, out))
                  => hostState'[h].last_result = "Down"]_vars

\* C11 (amended): an invocation that exceeds the hard timeout is recorded as
\* Down with no round-trip time and its process is killed; an invocation that
\* completes is recorded as Down exactly when its standard output has no
\* marker, whatever its exit status.
C11_TimeoutDownOutputDecides ==
    [][\A h \in Hosts :
         /\ CommunicateTimeout(h)
              => /\ hostState'[h].last_result = "Down"
                 /\ hostState'[h].last_rtt = None
                 /\ proc'[h] = "none"
         /\ \A out \in Outputs :
              CommunicateDone(h, out)
                  => (hostState'[h].last_result = "Down" <=> ~out.marker)]_vars

\* a ping that was spawned ended without a usable reply and is gone, while
\* the other host's ping printed a marker
C11_Witness ==
    /\ pingAvailable
    /\ mainpc = "running"
    /\ \E h, g \in Hosts :
         /\ hostState[h].last_result = "Down"
         /\ pc[h] = "waiting"
         /\ proc[h] = "none"
         /\ hostState[g].last_result = "Up"

\* C12: a completed invocation without the marker is recorded as Down; with
\* the marker and a number after it, as Up with that number; with the marker
\* and a token that is not a number (or no token), as Up with no round-trip
\* time, never as Down.
C12_Classification ==
    [][\A h \in Hosts : \A out \in Outputs :
         CommunicateDone(h, out)
             => /\ ~out.marker
                     => /\ hostState'[h].last_result = "Down"
                        /\ hostState'[h].last_rtt = None
                /\ (out.marker /\ out.token = "5.0")
                     => /\ hostState'[h].last_result = "Up"
                        /\ hostState'[h].last_rtt = 50
                /\ (out.marker /\ out.token \in {"abc", ""})
                     => /\ hostState'[h].last_result = "Up"
                        /\ hostState'[h].last_rtt = None]_vars

\* the three classes side by side: one host was recorded as Up without a
\* round-trip time, and the other has been Up with 5.0 ms or Down
C12_Witness ==
    /\ pingAvailable
    /\ \E h, g \in Hosts :
         /\ hostState[h] = [last_result |-> "Up", last_rtt |-> None, last_time |-> 0]
         /\ hostState[g].last_time = 1
         /\ \/ hostState[g].last_rtt = 50
            \/ hostState[g].last_result = "Down"

\* the states of a worker task that is alive
Alive == {"created", "spawning", "communicating", "waiting"}

\* C13: a probe that fails (ping missing, spawn error, hard timeout) is
\* recorded as Down and the loop goes on to its wait; while the dashboard loop
\* runs every worker task is alive, and a task ends only by the cancellation
\* of line 165.
C13_ErrorsAbsorbed ==
    [][\A h \in Hosts :
         /\ (SpawnDone(h, FALSE) \/ CommunicateTimeout(h))
              => /\ hostState'[h].last_result = "Down"
                 /\ hostState'[h].last_rtt = None
                 /\ pc'[h] = "waiting"
         /\ (/\ ~paused /\ ~pingAvailable
             /\ (WorkerStart(h) \/ WakeByEvent(h) \/ WakeByTimeout(h)))
              => /\ hostState'[h].last_result = "Down"
                 /\ pc'[h] = "waiting"
         /\ mainpc' = "running" => pc'[h] \in Alive
         /\ (pc[h] \in Alive /\ pc'[h] \notin Alive) => WorkerCancelled(h)]_vars

\* with ping installed, every host's probe has failed and every loop is in
\* its wait, the dashboard still running
C13_Witness ==
    /\ pingAvailable
    /\ mainpc = "running"
    /\ \A h \in Hosts :
         /\ hostState[h].last_result = "Down"
         /\ pc[h] = "waiting"
         /\ proc[h] = "none"

\* the record of a host that has not been probed, and the two records the
\* scenario ends in
Unprobed(h) == hostState[h].last_result = "Unknown" /\ hostState[h].last_rtt = None
UpWith5(h) == hostState[h].last_result = "Up" /\ hostState[h].last_rtt = 50
DownNoRtt(h) == hostState[h].last_result = "Down" /\ hostState[h].last_rtt = None

\* C14 (as stated): in the scenario, once one full interval has elapsed the
\* records read host 1 = Up with 5.0 ms and host 2 = Down without a
\* round-trip time.
C14_AfterOneInterval ==
    now > DEFAULT_INTERVAL => UpWith5(Host1) /\ DownNoRtt(Host2)

\* C14 (amended): in the scenario host 1 is never read as anything but
\* Unknown or Up with 5.0 ms and host 2 as anything but Unknown or Down;
\* host 1 is Up once one full interval has elapsed, host 2 is Down once the
\* hard timeout of its first ping has elapsed, and a record that has left
\* Unknown keeps its result and round-trip time at every later step.
C14_AfterHardBound ==
    [][/\ Unprobed(Host1)' \/ UpWith5(Host1)'
       /\ Unprobed(Host2)' \/ DownNoRtt(Host2)'
       /\ now' > DEFAULT_INTERVAL => UpWith5(Host1)'
       /\ now' > HardBound => DownNoRtt(Host2)'
       /\ \A h \in Hosts :
            ~Unprobed(h) => /\ hostState'[h].last_result = hostState[h].last_result
                            /\ hostState'[h].last_rtt = hostState[h].last_rtt]_vars

\* the hard timeout has elapsed, both hosts have been probed a second time
\* and show the final records
C14_Witness ==
    /\ timed
    /\ now > HardBound
    /\ UpWith5(Host1) /\ DownNoRtt(Host2)
    /\ hostState[Host1].last_time > DEFAULT_INTERVAL
    /\ hostState[Host2].last_time > HardBound

\* C15: the step that delivers the cancellation to a worker writes nothing
\* and starts no process, whether the worker was created, spawning,
\* communicating or waiting; from then on the worker stays cancelled, its
\* record is never written again and no process is started for its host;
\* no record is written once line 165 has requested the cancellations.
C15_CancelledIsTerminal ==
    [][\A h \in Hosts :
         /\ WorkerCancelled(h)
              => /\ pc'[h] = "cancelled"
                 /\ hostState'[h] = hostState[h]
                 /\ proc'[h] = proc[h]
         /\ pc[h] = "cancelled"
              => /\ pc'[h] = "cancelled"
                 /\ hostState'[h] = hostState[h]
                 /\ proc'[h] = "running" => proc[h] = "running"
         /\ mainpc \in {"gathering", "returned", "raised"}
              => hostState'[h] = hostState[h]]_vars

\* one worker was cancelled with its first ping in flight, the other is
\* still in its wait
C15_Witness ==
    /\ mainpc = "gathering"
    /\ \E h, g \in Hosts :
         /\ pc[h] = "cancelled"
         /\ proc[h] = "running"
         /\ hostState[h].last_result = "Unknown"
         /\ pc[g] = "waiting"

\* C16: a cycle that a worker begins while paused is true (its first one, or
\* one entered from a wait that ended by the event or by the timeout) starts
\* no ping, leaves the host's record as it was and ends in the wait.
C16_PausedCycleSkips ==
    [][\A h \in Hosts :
         (paused /\ (WorkerStart(h) \/ WakeByEvent(h) \/ WakeByTimeout(h)))
             => /\ pc'[h] = "waiting"
                /\ hostState'[h] = hostState[h]
                /\ proc' = proc]_vars

\* paused from the first frame on: a worker that has never probed was
\* released by an update request, ran its cycle and is waiting again
C16_Witness ==
    /\ paused
    /\ pingAvailable
    /\ mainpc = "running"
    /\ now = MaxTime
    /\ \E h \in Hosts :
         /\ pc[h] = "waiting"
         /\ served[h]
         /\ ~notified[h]
         /\ hostState[h] = HostStatus

\* C17: the step of a worker whose wait ended by the event leaves the event
\* unset; the step of a worker whose wait ended by the timeout leaves the
\* event as it found it, set or unset.
C17_SignalConsumedOnlyBySignalWake ==
    [][\A h \in Hosts :
         /\ WakeByEvent(h) => ~event'
         /\ WakeByTimeout(h) => event' = event]_vars

\* one worker was woken by the event, has reset it and is probing again
\* while the other, released by the same request, has not run yet
C17_Witness ==
    /\ mainpc = "running"
    /\ ~event
    /\ \E h, g \in Hosts :
         /\ served[h]
         /\ pc[h] = "spawning"
         /\ pc[g] = "waiting"
         /\ notified[g]

\* C18: a wait that begins (after a probe, or from a wait that has ended) is
\* given the interval of that moment as its timeout; a step that changes the
\* interval leaves every task and every running timeout as it is; and the
\* timeout of a wait in progress changes only by the passing of time.
C18_IntervalReadAtWaitStart ==
    [][\A h \in Hosts :
         /\ (/\ pc'[h] = "waiting"
             /\ \/ pc[h] \in {"created", "spawning", "communicating"}
                \/ WakeByEvent(h)
                \/ WakeByTimeout(h))
              => timer'[h] = interval
         /\ interval' # interval
              => /\ timer'[h] = timer[h]
                 /\ pc[h] \in Alive => pc'[h] = pc[h]
         /\ (/\ pc[h] = "waiting" /\ pc'[h] = "waiting"
             /\ ~WakeByEvent(h) /\ ~WakeByTimeout(h))
              => timer'[h] \in {timer[h], timer[h] - 1}]_vars

\* the interval was shortened while one worker was waiting and its timeout
\* still runs beyond the new interval, while the other worker's wait, begun
\* after the change, has the new interval as its timeout
C18_Witness ==
    /\ timed
    /\ interval # DEFAULT_INTERVAL
    /\ \E h, g \in Hosts :
         /\ pc[h] = "waiting" /\ timer[h] > interval
         /\ pc[g] = "waiting" /\ timer[g] = interval

\* C19: if from some point on the dashboard loop keeps running and paused
\* stays false, then every host's worker completes a probe and writes the
\* host's record again and again, whether or not a key is ever pressed.
C19_EveryHostWrittenAgain ==
    \A h \in Hosts :
       <>[](mainpc = "running" /\ ~paused) => []<><<Wrote(h)>>_vars

\* not paused, every host has been written and its next ping is in flight
C19_Witness ==
    /\ mainpc = "running"
    /\ ~paused
    /\ ~event
    /\ \A h \in Hosts :
         /\ hostState[h].last_result # "Unknown"
         /\ pc[h] = "communicating"
         /\ ~served[h]

\* C20 (as stated): an update request made while paused does not remain
\* pending: whenever paused is false, no request made while paused is still
\* waiting to release or to be served by a loop.
C20_NothingPendingAfterUnpause ==
    ~paused => ~reqPaused

\* C20 (amended): a loop that takes its wake-up step while paused is still
\* true consumes the request without effect: it leaves the event unset,
\* starts no ping, writes no record and is in a fresh wait that only its
\* timeout or a new request ends.
C20_ConsumedWhilePaused ==
    [][\A h \in Hosts :
         (paused /\ WakeByEvent(h))
             => /\ ~event'
                /\ pc'[h] = "waiting"
                /\ ~notified'[h]
                /\ hostState' = hostState
                /\ proc' = proc]_vars

\* still paused, every loop has consumed the request and waits again;
\* nothing is pending and no record was written
C20_Witness ==
    /\ paused
    /\ pingAvailable
    /\ mainpc = "running"
    /\ ~event
    /\ ~reqPaused
    /\ \A h \in Hosts :
         /\ pc[h] = "waiting"
         /\ served[h]
         /\ ~notified[h]
         /\ hostState[h] = HostStatus
====
